---- MODULE Spec2Model ----
(***************************************************************************)
(* Model of the Structured-Text to Mermaid translator of                   *)
(* src/st_processor.py: the label sanitizer _clean_st_line_for_mermaid,    *)
(* the line-by-line flow-graph builder _process_st_code_improved and the   *)
(* wrapper convert_to_mermaid, and of the component conversion of          *)
(* src/mermaid_processor.py (convert_component, _convert_body_to_mermaid,  *)
(* _parse_code_body) that calls it.                                        *)
(*                                                                         *)
(* A Python str is a sequence of one-character strings; a node id such as  *)
(* "Action3" is the record [kind |-> "Action", num |-> 3].                 *)
(***************************************************************************)
EXTENDS Integers, Sequences, FiniteSets, TLC

VARIABLES
    pc,                 \* position: "loop" | "done" (builder), "raw" | "once" | "twice" (sanitizer)
    name,               \* component name handed to convert_to_mermaid
    st_code,            \* source text handed to convert_to_mermaid
    st_lines,           \* st_code.strip().split('\n')
    i,                  \* index of the next line (1-based)
    node_num,
    last_action_node,
    in_case_statement,
    case_start_node,
    case_condition_node,
    case_end_node,
    case_branches,
    lines,              \* statements emitted by the builder, in order
    mermaid_lines,      \* the document convert_to_mermaid returns (<<>> until then)
    cl_line,            \* sanitizer run: the line argument
    cl_original,        \* sanitizer run: the original_line argument
    cl_once,            \* sanitizer run: _clean(line, original)
    cl_twice,           \* sanitizer run: _clean(cl_once)
    element,            \* component_info['element']: its body's contents and its interface
    include_logic,
    include_interface,
    calls,              \* the calls made to the four processors, in order
    mermaid_code,       \* what _parse_code_body returned (None until then)
    files_created,
    result              \* what convert_component returned (None until then)

vars == << pc, name, st_code, st_lines, i, node_num, last_action_node, in_case_statement,
           case_start_node, case_condition_node, case_end_node, case_branches,
           lines, mermaid_lines, cl_line, cl_original, cl_once, cl_twice,
           element, include_logic, include_interface, calls, mermaid_code, files_created,
           result >>

builderVars == << name, st_code, st_lines, i, node_num, last_action_node, in_case_statement,
                  case_start_node, case_condition_node, case_end_node, case_branches,
                  lines, mermaid_lines >>

cleanVars == << cl_line, cl_original, cl_once, cl_twice >>

componentVars == << element, include_logic, include_interface, calls, mermaid_code,
                    files_created, result >>

\* An Optional value: Python's None is the empty sequence, a value x is << x >>.
None == << >>
Some(x) == << x >>
\* Python's truth test on an Optional text: neither None nor the empty text.
Truthy(o) == o # None /\ o[1] # << >>

\* The component variables while no component is being converted.
NoComponent ==
    /\ element = [body |-> None, interface |-> FALSE]
    /\ include_logic = FALSE
    /\ include_interface = FALSE
    /\ calls = << >>
    /\ mermaid_code = None
    /\ files_created = << >>
    /\ result = None

----------------------------------------------------------------------------
(* Python str primitives on character sequences.                           *)

\* Characters str.split() and str.strip() treat as whitespace.
Whitespace == {" ", "\t", "\n"}

\* s * n for a one-character s.
Rep(c, n) == [k \in 1..n |-> c]

\* Concatenation of f[lo], ..., f[hi] (balanced, so that long strings do not
\* need deep recursion).
RECURSIVE Flat(_, _, _)
Flat(f, lo, hi) ==
    IF lo > hi THEN << >>
    ELSE IF lo = hi THEN f[lo]
    ELSE LET m == (lo + hi) \div 2 IN Flat(f, lo, m) \o Flat(f, m + 1, hi)

\* pat occurs in s at index k.
MatchAt(s, pat, k) ==
    /\ k >= 1
    /\ k + Len(pat) - 1 <= Len(s)
    /\ \A j \in 1..Len(pat) : s[k + j - 1] = pat[j]

\* pat in s
Contains(s, pat) == \E k \in 1..(Len(s) - Len(pat) + 1) : MatchAt(s, pat, k)

\* s.startswith(pat)
StartsWith(s, pat) == MatchAt(s, pat, 1)

\* s.replace(old, new), for an old that cannot overlap itself ('"', ':=', '=').
Replace(s, old, new) ==
    LET piece(k) ==
            IF MatchAt(s, old, k) THEN new
            ELSE IF \E b \in 1..(Len(old) - 1) : MatchAt(s, old, k - b) THEN << >>
            ELSE << s[k] >>
    IN  Flat([k \in 1..Len(s) |-> piece(k)], 1, Len(s))

\* s.rstrip(chars)
RStrip(s, chars) ==
    IF \A k \in 1..Len(s) : s[k] \in chars THEN << >>
    ELSE LET last == CHOOSE k \in 1..Len(s) :
                         /\ s[k] \notin chars
                         /\ \A j \in (k + 1)..Len(s) : s[j] \in chars
         IN  SubSeq(s, 1, last)

\* s.lstrip(chars)
LStrip(s, chars) ==
    IF \A k \in 1..Len(s) : s[k] \in chars THEN << >>
    ELSE LET first == CHOOSE k \in 1..Len(s) :
                          /\ s[k] \notin chars
                          /\ \A j \in 1..(k - 1) : s[j] \in chars
         IN  SubSeq(s, first, Len(s))

\* s.strip()
Strip(s) == LStrip(RStrip(s, Whitespace), Whitespace)

\* s.split(): the maximal runs of non-whitespace characters, in order.
Split(s) ==
    LET starts(k) == s[k] \notin Whitespace /\ (k = 1 \/ s[k - 1] \in Whitespace)
        stop(k) == CHOOSE e \in k..Len(s) :
                       /\ \A j \in k..e : s[j] \notin Whitespace
                       /\ (e = Len(s) \/ s[e + 1] \in Whitespace)
    IN  Flat([k \in 1..Len(s) |-> IF starts(k) THEN << SubSeq(s, k, stop(k)) >> ELSE << >>],
             1, Len(s))

\* sep.join(parts)
Join(sep, parts) ==
    Flat([k \in 1..Len(parts) |-> IF k = 1 THEN parts[k] ELSE sep \o parts[k]],
         1, Len(parts))

\* s.split(c): the pieces between the occurrences of the character c.
SplitChar(s, c) ==
    LET starts(p) == p = 1 \/ s[p - 1] = c
        stop(p) == IF \E e \in p..Len(s) : s[e] = c
                   THEN (CHOOSE e \in p..Len(s) :
                            s[e] = c /\ \A j \in p..(e - 1) : s[j] # c) - 1
                   ELSE Len(s)
    IN  Flat([p \in 1..(Len(s) + 1) |->
                 IF starts(p) THEN << SubSeq(s, p, stop(p)) >> ELSE << >>],
             1, Len(s) + 1)

\* s.upper() on the letters; every other character is unchanged.
LowerLetters == << "a", "b", "c", "d", "e", "f", "g", "h", "i", "j", "k", "l", "m",
                   "n", "o", "p", "q", "r", "s", "t", "u", "v", "w", "x", "y", "z" >>
UpperLetters == << "A", "B", "C", "D", "E", "F", "G", "H", "I", "J", "K", "L", "M",
                   "N", "O", "P", "Q", "R", "S", "T", "U", "V", "W", "X", "Y", "Z" >>
Digits == {"0", "1", "2", "3", "4", "5", "6", "7", "8", "9"}

\* The upper-case letter of each lower-case letter.
UpperOf == [c \in {LowerLetters[k] : k \in 1..26} |->
               UpperLetters[CHOOSE k \in 1..26 : LowerLetters[k] = c]]

UpperChar(c) == IF c \in DOMAIN UpperOf THEN UpperOf[c] ELSE c

Upper(s) == [k \in 1..Len(s) |-> UpperChar(s[k])]

\* The characters the regular expression class \w matches.
WordChars == {LowerLetters[k] : k \in 1..26} \cup {UpperLetters[k] : k \in 1..26}
                 \cup Digits \cup {"_"}

----------------------------------------------------------------------------
(* The label sanitizer.                                                    *)

LongThreshold == 500
DisplayBudget == 80
TruncateKeep == 77
VarPartLimit == 25
ValPartLimit == 25
PrefixMinLen == 20
DottedMinLen == 150
ExprMinLen == 30

Arrow == "←"
Ellipsis == << ".", ".", "." >>
QuoteEntity == << "&", "q", "u", "o", "t", ";" >>
Prefixes == << << "P", "V", "L", "." >>, << "G", "V", "L", "." >>,
               << "G", "V", "L", "_" >>, << "P", "V", "L", "_" >> >>

\* _simplify_variable_name
SimplifyVariableName(var_name) ==
    LET hits == {k \in 1..Len(Prefixes) :
                    StartsWith(var_name, Prefixes[k]) /\ Len(var_name) > PrefixMinLen}
        first == CHOOSE k \in hits : \A j \in hits : k <= j
        v1 == IF hits = {} THEN var_name
              ELSE SubSeq(var_name, Len(Prefixes[first]) + 1, Len(var_name))
        parts == SplitChar(v1, ".")
    IN  IF Len(v1) > DottedMinLen /\ Contains(v1, << "." >>)
        THEN IF Len(parts) > 2
             THEN parts[Len(parts) - 1] \o << "." >> \o parts[Len(parts)]
             ELSE parts[Len(parts)]
        ELSE v1

\* _simplify_function_call
SimplifyFunctionCall(func_call) ==
    LET \* re.match(r'(\w+)\(', func_call): the leading run of word characters,
        \* directly followed by '('
        run == IF \A k \in 1..Len(func_call) : func_call[k] \in WordChars
               THEN Len(func_call)
               ELSE (CHOOSE k \in 1..Len(func_call) :
                        /\ func_call[k] \notin WordChars
                        /\ \A j \in 1..(k - 1) : func_call[j] \in WordChars) - 1
        matched == run >= 1 /\ run < Len(func_call) /\ func_call[run + 1] = "("
    IN  IF matched
        THEN SubSeq(func_call, 1, run) \o << "(", ".", ".", ".", ")" >>
        ELSE IF Len(func_call) > ExprMinLen
             THEN IF Contains(func_call, << "(" >>)
                  THEN << "c", "o", "m", "p", "l", "e", "x", "_", "e", "x", "p", "r",
                          "(", ".", ".", ".", ")" >>
                  ELSE << "e", "x", "p", "r", "e", "s", "s", "i", "o", "n" >>
             ELSE func_call

\* The label rebuilt from the original line, lines 303-317:
\* re.split(r':=|=', original_line, 1) and the two simplifications.
RebuildLong(line, original_line) ==
    IF Contains(original_line, << "=" >>)
    THEN LET eq == CHOOSE k \in 1..Len(original_line) :
                       /\ original_line[k] = "="
                       /\ \A j \in 1..(k - 1) : original_line[j] # "="
             from == IF eq > 1 /\ original_line[eq - 1] = ":" THEN eq - 1 ELSE eq
             var0 == Strip(SubSeq(original_line, 1, from - 1))
             val0 == Strip(SubSeq(original_line, eq + 1, Len(original_line)))
             var_part == IF Len(var0) > VarPartLimit THEN SimplifyVariableName(var0) ELSE var0
             val_part == IF Len(val0) > ValPartLimit THEN SimplifyFunctionCall(val0) ELSE val0
         IN  var_part \o << " ", Arrow, " " >> \o val_part
    ELSE line

\* Lines 278-298: whitespace, terminators, quotes, operators.
CleanSteps(line) ==
    LET l1 == Join(<< " " >>, Split(line))
        l2 == RStrip(l1, {";", ":"})
        l3 == Replace(l2, << "\"" >>, QuoteEntity)
        l4 == Replace(l3, << ":", "=" >>, << " ", Arrow, " " >>)
        l5 == Replace(l4, << "=" >>, << " ", "=", " " >>)
    IN  Join(<< " " >>, Split(l5))

\* Truncate with the cut made at the display budget instead of three characters
\* before it.
TruncateAtBudget(line) ==
    IF Len(line) > DisplayBudget THEN SubSeq(line, 1, DisplayBudget) \o Ellipsis ELSE line

\* Lines 319-321.
Truncate(line) ==
    IF Len(line) > DisplayBudget THEN SubSeq(line, 1, TruncateKeep) \o Ellipsis ELSE line

\* _clean_st_line_for_mermaid(line, original_line)
CleanStLineForMermaid(line, original_line) ==
    LET l6 == CleanSteps(line)
    IN  IF Len(l6) > LongThreshold
        THEN Strip(Truncate(RebuildLong(l6, original_line)))
        ELSE Strip(l6)

\* _clean_st_line_for_mermaid(line): original_line defaults to line.
CleanLabel(line) == CleanStLineForMermaid(line, line)

----------------------------------------------------------------------------
(* The flow graph: node ids and the statements of the diagram.             *)

Id(kind, n) == [kind |-> kind, num |-> n]
StartId == [kind |-> "Start", num |-> 0]
EndId == [kind |-> "End", num |-> 0]
\* Python's None, the value of the case_*_node variables before any CASE.
NoneId == [kind |-> "None", num |-> 0]

\* id["label"] (shape "rect") and id{"label"} (shape "diamond")
NodeDecl(id, label, shape) == [t |-> "node", id |-> id, label |-> label, shape |-> shape]
\* from --> to, and from -->|tag| to
Edge(from, to) == [t |-> "edge", from |-> from, to |-> to, tag |-> ""]
TaggedEdge(from, tag, to) == [t |-> "edge", from |-> from, to |-> to, tag |-> tag]

KwCASE == << "C", "A", "S", "E" >>
KwOF == << "O", "F" >>
KwEND_CASE == << "E", "N", "D", "_", "C", "A", "S", "E" >>
KwEND_ == << "E", "N", "D", "_" >>
KwIF == << "I", "F" >>
KwTHEN == << "T", "H", "E", "N" >>
KwELSIF == << "E", "L", "S", "I", "F" >>
KwELSEIF == << "E", "L", "S", "E", "I", "F" >>
KwELSE == << "E", "L", "S", "E" >>
KwEND_IF == << "E", "N", "D", "_", "I", "F" >>
KwENDIF == << "E", "N", "D", "I", "F" >>

LblCaseStatement == << "C", "A", "S", "E", " ", "S", "t", "a", "t", "e", "m", "e", "n", "t" >>
LblEndCase == << "E", "n", "d", " ", "C", "A", "S", "E" >>
LblNoAction == << "N", "o", " ", "a", "c", "t", "i", "o", "n" >>
LblThenBranch == << "T", "h", "e", "n", " ", "b", "r", "a", "n", "c", "h" >>
LblElsePrefix == << "E", "l", "s", "e", ":", " " >>
LblEmptyStatement == << "E", "m", "p", "t", "y", " ", "s", "t", "a", "t", "e", "m", "e", "n", "t" >>
LblStartPrefix == << "S", "t", "a", "r", "t", ":", " " >>
LblEndPrefix == << "E", "n", "d", ":", " " >>

----------------------------------------------------------------------------
(* The tests of the if/elif chain of _process_st_code_improved, in the     *)
(* order the code evaluates them.                                          *)

\* 'CASE' in upper_line and 'OF' in upper_line
IsCaseOpen(upper_line) == Contains(upper_line, KwCASE) /\ Contains(upper_line, KwOF)

\* IsCaseClose without the test of in_case_statement.
IsCaseCloseAnywhere(in_case, upper_line) == Contains(upper_line, KwEND_CASE)

\* in_case_statement and 'END_CASE' in upper_line
IsCaseClose(in_case, upper_line) == in_case /\ Contains(upper_line, KwEND_CASE)

\* IsCaseBranch without the test of the CASE state.
IsCaseBranchAnywhere(in_case, ln) ==
    Contains(ln, << ":" >>) /\ ~StartsWith(Strip(ln), KwEND_)

\* in_case_statement and ':' in line and not line.strip().startswith('END_')
IsCaseBranch(in_case, ln) ==
    in_case /\ Contains(ln, << ":" >>) /\ ~StartsWith(Strip(ln), KwEND_)

\* any(keyword in upper_line for keyword in ['IF', 'THEN'])
IsIfThen(upper_line) == Contains(upper_line, KwIF) \/ Contains(upper_line, KwTHEN)

\* any(keyword in upper_word for keyword in ['ELSIF', 'ELSEIF']
\*     for upper_word in upper_line.split())
IsElsif(upper_line) ==
    LET words == Split(upper_line)
    IN  \E k \in 1..Len(words) : Contains(words[k], KwELSIF) \/ Contains(words[k], KwELSEIF)

\* 'ELSE' in upper_line.split()
IsElse(upper_line) ==
    LET words == Split(upper_line)
    IN  \E k \in 1..Len(words) : words[k] = KwELSE

\* any(keyword in upper_line for keyword in ['END_IF', 'ENDIF'])
IsEndIf(upper_line) == Contains(upper_line, KwEND_IF) \/ Contains(upper_line, KwENDIF)

\* The branch of the chain that handles the line ln, with
\* in_case_statement = in_case.
Classify(in_case, ln) ==
    LET upper_line == Upper(ln)
    IN  IF IsCaseOpen(upper_line) THEN "CaseOpen"
        ELSE IF IsCaseClose(in_case, upper_line) THEN "CaseClose"
        ELSE IF IsCaseBranch(in_case, ln) THEN "CaseBranch"
        ELSE IF IsIfThen(upper_line) THEN "ConditionalOpen"
        ELSE IF IsElsif(upper_line) THEN "ConditionalElseIf"
        ELSE IF IsElse(upper_line) THEN "ConditionalElse"
        ELSE IF IsEndIf(upper_line) THEN "ConditionalClose"
        ELSE "PlainStatement"

----------------------------------------------------------------------------
(* The inputs.                                                             *)

\* Longest source text, in lines, of the exhaustive part of the inputs.
MaxLines == 3

LnBlank == << >>
LnSpaces == << " ", " " >>
LnAssign == << "x", " ", ":", "=", " ", "1", ";" >>
LnSemi == << ";" >>
LnCase == << "C", "A", "S", "E", " ", "s", " ", "O", "F" >>
LnBranch == << "1", ":", " ", "A", "(", ")", ";" >>
LnBranchNoAction == << "2", ":" >>
LnEndCase == << "E", "N", "D", "_", "C", "A", "S", "E" >>
LnIf == << "I", "F", " ", "a", " ", "T", "H", "E", "N" >>
LnElsif == << "E", "L", "S", "I", "F", " ", "b", " ", "T", "H", "E", "N" >>
LnElse == << "E", "L", "S", "E" >>
LnEndIf == << "E", "N", "D", "_", "I", "F" >>

LineAlphabet == { LnBlank, LnSpaces, LnAssign, LnSemi, LnCase, LnBranch, LnBranchNoAction,
                  LnEndCase, LnIf, LnElsif, LnElse, LnEndIf }

\* The scenarios of the specification's section 8 and two longer CASE texts.
IfElseScenario ==
    << << "I", "F", " ", "x", " ", ">", " ", "0", " ", "T", "H", "E", "N" >>,
       << " ", " ", "y", " ", ":", "=", " ", "1", ";" >>,
       << "E", "L", "S", "E" >>,
       << " ", " ", "y", " ", ":", "=", " ", "0", ";" >>,
       << "E", "N", "D", "_", "I", "F" >> >>
CaseScenario ==
    << << "C", "A", "S", "E", " ", "s", "t", "a", "t", "e", " ", "O", "F" >>,
       << " ", " ", "1", ":", " ", "D", "o", "A", "(", ")", ";" >>,
       << " ", " ", "2", ":", " ", "D", "o", "B", "(", ")", ";" >>,
       << "E", "N", "D", "_", "C", "A", "S", "E" >> >>
NestedCaseScenario == << LnCase, LnBranch, LnCase, LnBranchNoAction, LnEndCase, LnEndCase >>
RepeatedCaseScenario == << LnCase, LnBranch, LnEndCase, LnCase, LnBranchNoAction, LnBranch, LnEndCase >>
\* A CASE block whose branch line has nothing before its colon.
LnBranchNoCondition == << ":", " ", "A", "(", ")", ";" >>
EmptyConditionScenario == << LnCase, LnBranchNoCondition, LnEndCase >>
Scenarios == { IfElseScenario, CaseScenario, NestedCaseScenario, RepeatedCaseScenario,
               EmptyConditionScenario }

\* '\n'.join(ls): the text whose physical lines are ls.
Text(ls) == Join(<< "\n" >>, ls)

\* The source texts, each as the sequence of its physical lines.
SourceLines == UNION {[1..n -> LineAlphabet] : n \in 1..MaxLines} \cup Scenarios

Names == { << "T", "e", "s", "t" >> }

----------------------------------------------------------------------------
(* convert_to_mermaid and _process_st_code_improved.                       *)

\* Lines 74-82: the statements the document starts with.
Header(nm, code) ==
    << [t |-> "comment", text |-> "Mermaid flowchart for ST logic"],
       [t |-> "comment", text |-> "Generated from PLCopen XML export"],
       [t |-> "comment", text |-> << "Component", nm >>],
       [t |-> "comment", text |-> << "ST Code Length", Len(code) >>],
       [t |-> "blank"],
       [t |-> "graph", text |-> "flowchart TD"],
       NodeDecl(StartId, LblStartPrefix \o nm, "rect") >>

\* Document with the End node declared only when an edge leads into it.
DocumentEndWhenWired(head, body, last_node, nm) ==
    head \o body
         \o (IF last_node # StartId
             THEN << Edge(last_node, EndId), NodeDecl(EndId, LblEndPrefix \o nm, "rect") >>
             ELSE << >>)

\* Document without the test that keeps the Start node from being wired to End.
DocumentAlwaysWired(head, body, last_node, nm) ==
    head \o body \o << Edge(last_node, EndId), NodeDecl(EndId, LblEndPrefix \o nm, "rect") >>

\* Document with the ends of the final edge exchanged.
DocumentEdgeReversed(head, body, last_node, nm) ==
    head \o body
         \o (IF last_node # StartId THEN << Edge(EndId, last_node) >> ELSE << >>)
         \o << NodeDecl(EndId, LblEndPrefix \o nm, "rect") >>

\* Lines 86-92: the builder's statements, the edge into End, the End node.
Document(head, body, last_node, nm) ==
    head \o body
         \o (IF last_node # StartId THEN << Edge(last_node, EndId) >> ELSE << >>)
         \o << NodeDecl(EndId, LblEndPrefix \o nm, "rect") >>

\* The line the loop is at (lines 117-127).
original_line == st_lines[i]
line == Strip(original_line)
clean_line == CleanStLineForMermaid(line, original_line)

\* CaseOpenLine with the ends of the edge from the frontier exchanged.
CaseOpenLineReversed ==
    LET start == Id("Case", node_num)
        cond == Id("CaseCond", node_num)
    IN  /\ in_case_statement' = TRUE
        /\ case_start_node' = start
        /\ case_condition_node' = cond
        /\ case_end_node' = Id("CaseEnd", node_num)
        /\ case_branches' = << >>
        /\ lines' = lines \o << NodeDecl(start, LblCaseStatement, "rect"),
                                Edge(start, last_action_node),
                                NodeDecl(cond, clean_line, "diamond"),
                                Edge(start, cond) >>
        /\ last_action_node' = cond
        /\ node_num' = node_num + 1
        /\ i' = i + 1

\* Lines 133-149.
CaseOpenLine ==
    LET start == Id("Case", node_num)
        cond == Id("CaseCond", node_num)
    IN  /\ in_case_statement' = TRUE
        /\ case_start_node' = start
        /\ case_condition_node' = cond
        /\ case_end_node' = Id("CaseEnd", node_num)
        /\ case_branches' = << >>
        /\ lines' = lines \o << NodeDecl(start, LblCaseStatement, "rect"),
                                Edge(last_action_node, start),
                                NodeDecl(cond, clean_line, "diamond"),
                                Edge(start, cond) >>
        /\ last_action_node' = cond
        /\ node_num' = node_num + 1
        /\ i' = i + 1

\* CaseCloseLine that leaves the builder in the CASE block.
CaseCloseLineStaysInCase ==
    /\ lines' = lines \o << NodeDecl(case_end_node, LblEndCase, "rect") >>
                      \o [k \in 1..Len(case_branches) |-> Edge(case_branches[k], case_end_node)]
    /\ last_action_node' = case_end_node
    /\ node_num' = node_num + 1
    /\ i' = i + 1
    /\ UNCHANGED << in_case_statement, case_start_node, case_condition_node, case_end_node,
                    case_branches >>

\* Lines 151-165.
CaseCloseLine ==
    /\ lines' = lines \o << NodeDecl(case_end_node, LblEndCase, "rect") >>
                      \o [k \in 1..Len(case_branches) |-> Edge(case_branches[k], case_end_node)]
    /\ last_action_node' = case_end_node
    /\ in_case_statement' = FALSE
    /\ node_num' = node_num + 1
    /\ i' = i + 1
    /\ UNCHANGED << case_start_node, case_condition_node, case_end_node, case_branches >>

\* Lines 173-179: line.split(':', 1) and the two labels.
BranchLabels(ln) ==
    LET colon == CHOOSE k \in 1..Len(ln) : ln[k] = ":" /\ \A j \in 1..(k - 1) : ln[j] # ":"
        condition_part == SubSeq(ln, 1, colon - 1)
        action_part == SubSeq(ln, colon + 1, Len(ln))
        condition_clean == CleanStLineForMermaid(Strip(condition_part), condition_part)
        action_clean == CleanStLineForMermaid(Strip(action_part), action_part)
    IN  [condition |-> condition_clean,
         action |-> IF Strip(action_clean) = << >> THEN LblNoAction ELSE action_clean]

\* CaseBranchLine that does not record the action node as a branch terminal.
CaseBranchLineUnrecorded ==
    LET branch_node == Id("CaseBranch", node_num)
        action_node == Id("CaseAction", node_num)
        labels == BranchLabels(line)
    IN  /\ lines' = lines \o << NodeDecl(branch_node, labels.condition, "rect"),
                                Edge(case_condition_node, branch_node),
                                NodeDecl(action_node, labels.action, "rect"),
                                Edge(branch_node, action_node) >>
        /\ node_num' = node_num + 1
        /\ i' = i + 1
        /\ UNCHANGED << last_action_node, in_case_statement, case_start_node,
                        case_condition_node, case_end_node, case_branches >>

\* CaseBranchLine that makes the action node the frontier.
CaseBranchLineMovesFrontier ==
    LET branch_node == Id("CaseBranch", node_num)
        action_node == Id("CaseAction", node_num)
        labels == BranchLabels(line)
    IN  /\ lines' = lines \o << NodeDecl(branch_node, labels.condition, "rect"),
                                Edge(case_condition_node, branch_node),
                                NodeDecl(action_node, labels.action, "rect"),
                                Edge(branch_node, action_node) >>
        /\ case_branches' = Append(case_branches, action_node)
        /\ last_action_node' = action_node
        /\ node_num' = node_num + 1
        /\ i' = i + 1
        /\ UNCHANGED << in_case_statement, case_start_node, case_condition_node,
                        case_end_node >>

\* Lines 167-194.
CaseBranchLine ==
    LET branch_node == Id("CaseBranch", node_num)
        action_node == Id("CaseAction", node_num)
        labels == BranchLabels(line)
    IN  /\ lines' = lines \o << NodeDecl(branch_node, labels.condition, "rect"),
                                Edge(case_condition_node, branch_node),
                                NodeDecl(action_node, labels.action, "rect"),
                                Edge(branch_node, action_node) >>
        /\ case_branches' = Append(case_branches, action_node)
        /\ node_num' = node_num + 1
        /\ i' = i + 1
        /\ UNCHANGED << last_action_node, in_case_statement, case_start_node,
                        case_condition_node, case_end_node >>

\* IfThenLine that advances the counter by one, past the True target only.
IfThenLineAdvancesOne ==
    LET condition_node == Id("Condition", node_num)
        true_action_node == Id("Action", node_num)
        false_action_node == Id("Action", node_num + 1)
    IN  /\ lines' = lines \o << NodeDecl(condition_node, clean_line, "diamond"),
                                Edge(last_action_node, condition_node),
                                TaggedEdge(condition_node, "True", true_action_node),
                                TaggedEdge(condition_node, "False", false_action_node),
                                NodeDecl(true_action_node,
                                         CleanStLineForMermaid(LblThenBranch, LblThenBranch),
                                         "rect") >>
        /\ last_action_node' = true_action_node
        /\ node_num' = node_num + 1
        /\ i' = i + 1
        /\ UNCHANGED << in_case_statement, case_start_node, case_condition_node,
                        case_end_node, case_branches >>

\* IfThenLine that leaves the condition unconnected when the frontier is Start.
IfThenLineSkipsStart ==
    LET condition_node == Id("Condition", node_num)
        true_action_node == Id("Action", node_num)
        false_action_node == Id("Action", node_num + 1)
    IN  /\ lines' = lines \o << NodeDecl(condition_node, clean_line, "diamond") >>
                          \o (IF last_action_node # StartId
                              THEN << Edge(last_action_node, condition_node) >> ELSE << >>)
                          \o << TaggedEdge(condition_node, "True", true_action_node),
                                TaggedEdge(condition_node, "False", false_action_node),
                                NodeDecl(true_action_node,
                                         CleanStLineForMermaid(LblThenBranch, LblThenBranch),
                                         "rect") >>
        /\ last_action_node' = true_action_node
        /\ node_num' = node_num + 2
        /\ i' = i + 1
        /\ UNCHANGED << in_case_statement, case_start_node, case_condition_node,
                        case_end_node, case_branches >>

\* Lines 197-215.
IfThenLine ==
    LET condition_node == Id("Condition", node_num)
        true_action_node == Id("Action", node_num)
        false_action_node == Id("Action", node_num + 1)
    IN  /\ lines' = lines \o << NodeDecl(condition_node, clean_line, "diamond"),
                                Edge(last_action_node, condition_node),
                                TaggedEdge(condition_node, "True", true_action_node),
                                TaggedEdge(condition_node, "False", false_action_node),
                                NodeDecl(true_action_node,
                                         CleanStLineForMermaid(LblThenBranch, LblThenBranch),
                                         "rect") >>
        /\ last_action_node' = true_action_node
        /\ node_num' = node_num + 2
        /\ i' = i + 1
        /\ UNCHANGED << in_case_statement, case_start_node, case_condition_node,
                        case_end_node, case_branches >>

\* Lines 217-229.
ElsifLine ==
    LET condition_node == Id("Condition", node_num)
    IN  /\ lines' = lines \o << NodeDecl(condition_node, clean_line, "diamond"),
                                Edge(Id("Action", node_num - 1), condition_node),
                                TaggedEdge(condition_node, "True", Id("Action", node_num)),
                                TaggedEdge(condition_node, "False", Id("Action", node_num + 1)) >>
        /\ last_action_node' = Id("Action", node_num)
        /\ node_num' = node_num + 2
        /\ i' = i + 1
        /\ UNCHANGED << in_case_statement, case_start_node, case_condition_node,
                        case_end_node, case_branches >>

\* Lines 231-239.
ElseLine ==
    LET else_node == Id("Action", node_num)
    IN  /\ lines' = lines \o << NodeDecl(else_node, LblElsePrefix \o clean_line, "rect"),
                                Edge(Id("Action", node_num - 1), else_node) >>
        /\ last_action_node' = else_node
        /\ node_num' = node_num + 1
        /\ i' = i + 1
        /\ UNCHANGED << in_case_statement, case_start_node, case_condition_node,
                        case_end_node, case_branches >>

\* Lines 241-245.
EndIfLine ==
    /\ i' = i + 1
    /\ UNCHANGED << lines, last_action_node, node_num, in_case_statement, case_start_node,
                    case_condition_node, case_end_node, case_branches >>

\* PlainStatements without the test that leaves the first action unconnected.
PlainStatementsAlwaysWired(label, frontier, action_node) ==
    << NodeDecl(action_node, IF Strip(label) = << >> THEN LblEmptyStatement ELSE label, "rect"),
       Edge(frontier, action_node) >>

\* Lines 252-260: the statements of a regular action.
PlainStatements(label, frontier, action_node) ==
    << NodeDecl(action_node, IF Strip(label) = << >> THEN LblEmptyStatement ELSE label, "rect") >>
        \o (IF frontier # StartId THEN << Edge(frontier, action_node) >> ELSE << >>)

\* Lines 247-265.
PlainLine ==
    LET action_node == Id("Action", node_num)
    IN  /\ lines' = lines \o PlainStatements(clean_line, last_action_node, action_node)
        /\ last_action_node' = action_node
        /\ node_num' = node_num + 1
        /\ i' = i + 1
        /\ UNCHANGED << in_case_statement, case_start_node, case_condition_node,
                        case_end_node, case_branches >>

\* Lines 116-122: a blank line is skipped.
SkipBlank ==
    /\ pc = "loop"
    /\ i <= Len(st_lines)
    /\ line = << >>
    /\ i' = i + 1
    /\ UNCHANGED << pc, name, st_code, st_lines, node_num, last_action_node,
                    in_case_statement, case_start_node, case_condition_node, case_end_node,
                    case_branches, lines, mermaid_lines >>
    /\ UNCHANGED cleanVars
    /\ UNCHANGED componentVars

\* Lines 116-265: one iteration of the loop on a non-blank line.
ProcessLine ==
    /\ pc = "loop"
    /\ i <= Len(st_lines)
    /\ line # << >>
    /\ LET upper_line == Upper(line)
       IN  IF IsCaseOpen(upper_line) THEN CaseOpenLine
           ELSE IF IsCaseClose(in_case_statement, upper_line) THEN CaseCloseLine
           ELSE IF IsCaseBranch(in_case_statement, line) THEN CaseBranchLine
           ELSE IF IsIfThen(upper_line) THEN IfThenLine
           ELSE IF IsElsif(upper_line) THEN ElsifLine
           ELSE IF IsElse(upper_line) THEN ElseLine
           ELSE IF IsEndIf(upper_line) THEN EndIfLine
           ELSE PlainLine
    /\ UNCHANGED << pc, name, st_code, st_lines, mermaid_lines >>
    /\ UNCHANGED cleanVars
    /\ UNCHANGED componentVars

\* Lines 85-96: the loop is over, convert_to_mermaid completes the document.
Finish ==
    /\ pc = "loop"
    /\ i > Len(st_lines)
    /\ mermaid_lines' = Document(mermaid_lines, lines, last_action_node, name)
    /\ pc' = "done"
    /\ UNCHANGED << name, st_code, st_lines, i, node_num, last_action_node,
                    in_case_statement, case_start_node, case_condition_node, case_end_node,
                    case_branches, lines >>
    /\ UNCHANGED cleanVars
    /\ UNCHANGED componentVars

\* Lines 74-82 and 102-115.
Init ==
    /\ pc = "loop"
    /\ name \in Names
    /\ \E ls \in SourceLines :
           /\ st_code = Text(ls)
           /\ st_lines = SplitChar(Strip(Text(ls)), "\n")
    /\ i = 1
    /\ node_num = 1
    /\ last_action_node = StartId
    /\ in_case_statement = FALSE
    /\ case_start_node = NoneId
    /\ case_condition_node = NoneId
    /\ case_end_node = NoneId
    /\ case_branches = << >>
    /\ lines = << >>
    /\ mermaid_lines = Header(name, st_code)
    /\ cl_line = << >>
    /\ cl_original = << >>
    /\ cl_once = << >>
    /\ cl_twice = << >>
    /\ NoComponent

Next == SkipBlank \/ ProcessLine \/ Finish

Spec == Init /\ [][Next]_vars

----------------------------------------------------------------------------
(* The sanitizer on its own: _clean_st_line_for_mermaid applied to a raw   *)
(* line as the builder applies it (line = original_line.strip()), and      *)
(* applied once more to its own result.                                    *)

\* Longest raw line of the exhaustive part of the sanitizer's inputs.
MaxShortLen == 3
\* Length of the filler that takes a raw line over LongThreshold.
PadLen == 501
\* Number of quotes whose escaped form is longer than LongThreshold.
QuotePad == 84

ShortChars == {"a", " ", ";", ":", "=", "\""}
ShortInputs == UNION {[1..n -> ShortChars] : n \in 0..MaxShortLen}

VarParts ==
    { << >>,
      << "a" >>,
      << "a", "\"", "b" >>,
      << "G", "V", "L", "." >> \o Rep("a", VarPartLimit + 1),
      << "P", "V", "L", "_", "p", "." >> \o Rep("q", DottedMinLen + 1) \o << ".", "r" >>,
      Rep("a", PadLen) }
OpParts == { << ":", "=" >>, << "=" >>, << " " >> }
ValParts ==
    { << "b" >>,
      << "\"", "x", "\"" >>,
      << "f", "(" >> \o Rep("a", PadLen) \o << ")" >>,
      Rep("b", PadLen),
      Rep("\"", QuotePad),
      Rep("a", PadLen) \o << "(", "x", ")" >> }
LongInputs == {v \o o \o w : v \in VarParts, o \in OpParts, w \in ValParts}

CleanInputs == ShortInputs \cup LongInputs

CleanOnce ==
    /\ pc = "raw"
    /\ cl_once' = CleanStLineForMermaid(cl_line, cl_original)
    /\ pc' = "once"
    /\ UNCHANGED << cl_line, cl_original, cl_twice >>
    /\ UNCHANGED builderVars
    /\ UNCHANGED componentVars

CleanTwice ==
    /\ pc = "once"
    /\ cl_twice' = CleanLabel(cl_once)
    /\ pc' = "twice"
    /\ UNCHANGED << cl_line, cl_original, cl_once >>
    /\ UNCHANGED builderVars
    /\ UNCHANGED componentVars

InitClean ==
    /\ pc = "raw"
    /\ cl_original \in CleanInputs
    /\ cl_line = Strip(cl_original)
    /\ cl_once = << >>
    /\ cl_twice = << >>
    /\ name = << >>
    /\ st_code = << >>
    /\ st_lines = << >>
    /\ i = 1
    /\ node_num = 1
    /\ last_action_node = StartId
    /\ in_case_statement = FALSE
    /\ case_start_node = NoneId
    /\ case_condition_node = NoneId
    /\ case_end_node = NoneId
    /\ case_branches = << >>
    /\ lines = << >>
    /\ mermaid_lines = << >>
    /\ NoComponent

NextClean == CleanOnce \/ CleanTwice

SpecClean == InitClean /\ [][NextClean]_vars

----------------------------------------------------------------------------
(* convert_component of src/mermaid_processor.py: the body of a component  *)
(* is offered to the four processors in turn, the diagram of the first one *)
(* that extracts text is written to the logic file.  The ST processor is   *)
(* the builder above; the LD, CFC and FBD processors are other modules,    *)
(* known here by what extract_code returns (an input) and by the contract  *)
(* of convert_to_mermaid (it returns a text).                              *)

Processors == << "ST", "LD", "CFC", "FBD" >>

\* A call of a processor's method.
Call(proc, op) == [proc |-> proc, op |-> op]

\* The texts STProcessor.extract_code returns: None, or the stripped,
\* non-empty text of the body's ST elements.
ExtractedST ==
    {None} \cup {Some(Strip(Text(ls))) : ls \in Scenarios \cup {<< LnIf, LnBlank, LnAssign >>}}

\* What extract_code of the LD, CFC and FBD processors returns.
ExtractedForeign == { None, Some(<< >>), Some(<< "r", "u", "n", "g" >>) }

\* body_element as the processors see it: what each extract_code returns.
Bodies ==
    {[p \in {"ST", "LD", "CFC", "FBD"} |-> IF p = "ST" THEN st ELSE f[p]] :
        st \in ExtractedST, f \in [{"LD", "CFC", "FBD"} -> ExtractedForeign]}

\* The text convert_to_mermaid of the LD, CFC or FBD processor returns.
ForeignDiagram(proc, nm) ==
    << [t |-> "comment", text |-> << "Component", nm >>],
       [t |-> "graph", text |-> proc] >>

\* The files convert_component writes.
LogicFile(nm, code) == [file |-> "_logic.mmd", name |-> nm, content |-> code]
InterfaceFile(nm) == [file |-> "_interface.mmd", name |-> nm]

\* Lines 34-48 and 65-72, 87-90: the body is looked up when logic is wanted.
ConvertBody ==
    /\ pc = "convert_component"
    /\ pc' = IF include_logic /\ element.body # None THEN "parse_st" ELSE "interface"
    /\ UNCHANGED builderVars
    /\ UNCHANGED cleanVars
    /\ UNCHANGED componentVars

\* Lines 94-98: ST text is looked for first; if there is some, the ST
\* builder is called (convert_to_mermaid, lines 70-82, and the set-up of
\* _process_st_code_improved, lines 102-115).
ParseST ==
    /\ pc = "parse_st"
    /\ LET st == element.body[1]["ST"]
       IN  IF Truthy(st)
           THEN /\ calls' = calls \o << Call("ST", "extract_code"),
                                        Call("ST", "convert_to_mermaid") >>
                /\ st_code' = st[1]
                /\ st_lines' = SplitChar(Strip(st[1]), "\n")
                /\ mermaid_lines' = Header(name, st[1])
                /\ pc' = "loop"
           ELSE /\ calls' = Append(calls, Call("ST", "extract_code"))
                /\ pc' = "parse_ld"
                /\ UNCHANGED << st_code, st_lines, mermaid_lines >>
    /\ i' = 1
    /\ node_num' = 1
    /\ last_action_node' = StartId
    /\ in_case_statement' = FALSE
    /\ case_start_node' = NoneId
    /\ case_condition_node' = NoneId
    /\ case_end_node' = NoneId
    /\ case_branches' = << >>
    /\ lines' = << >>
    /\ UNCHANGED << name, element, include_logic, include_interface, mermaid_code,
                    files_created, result >>
    /\ UNCHANGED cleanVars

\* Lines 98 and 77: the ST builder's document is what _parse_code_body returns.
BuilderReturns ==
    /\ pc = "done"
    /\ mermaid_code' = Some(mermaid_lines)
    /\ pc' = "write"
    /\ UNCHANGED << element, include_logic, include_interface, calls, files_created, result >>
    /\ UNCHANGED builderVars
    /\ UNCHANGED cleanVars

\* ParseForeign that goes on to the next processor after a conversion.
ParseForeignFallsThrough(proc, next) ==
    /\ IF Truthy(element.body[1][proc])
       THEN /\ calls' = calls \o << Call(proc, "extract_code"),
                                    Call(proc, "convert_to_mermaid") >>
            /\ mermaid_code' = Some(ForeignDiagram(proc, name))
            /\ pc' = next
       ELSE /\ calls' = Append(calls, Call(proc, "extract_code"))
            /\ mermaid_code' = None
            /\ pc' = next
    /\ UNCHANGED << element, include_logic, include_interface, files_created, result >>
    /\ UNCHANGED builderVars
    /\ UNCHANGED cleanVars

\* Lines 100-121: one of the later processors is asked for its text; if it
\* has some its converter's text is returned, otherwise the next processor
\* is asked, and None is returned after the last.
ParseForeign(proc, next) ==
    /\ IF Truthy(element.body[1][proc])
       THEN /\ calls' = calls \o << Call(proc, "extract_code"),
                                    Call(proc, "convert_to_mermaid") >>
            /\ mermaid_code' = Some(ForeignDiagram(proc, name))
            /\ pc' = "write"
       ELSE /\ calls' = Append(calls, Call(proc, "extract_code"))
            /\ mermaid_code' = None
            /\ pc' = next
    /\ UNCHANGED << element, include_logic, include_interface, files_created, result >>
    /\ UNCHANGED builderVars
    /\ UNCHANGED cleanVars

\* Lines 100-104.
ParseLD == pc = "parse_ld" /\ ParseForeign("LD", "parse_cfc")
\* Lines 106-110.
ParseCFC == pc = "parse_cfc" /\ ParseForeign("CFC", "parse_fbd")
\* Lines 112-121.
ParseFBD == pc = "parse_fbd" /\ ParseForeign("FBD", "write")

\* Lines 78-86: the logic file is written when there is a diagram.
WriteLogic ==
    /\ pc = "write"
    /\ files_created' = IF Truthy(mermaid_code)
                        THEN Append(files_created, LogicFile(name, mermaid_code[1]))
                        ELSE files_created
    /\ pc' = "interface"
    /\ UNCHANGED << element, include_logic, include_interface, calls, mermaid_code, result >>
    /\ UNCHANGED builderVars
    /\ UNCHANGED cleanVars

\* Lines 51-56 and 123-137: the interface file is written when interface
\* output is wanted and the interface has variables.
ConvertInterface ==
    /\ pc = "interface"
    /\ files_created' = IF include_interface /\ element.interface
                        THEN Append(files_created, InterfaceFile(name))
                        ELSE files_created
    /\ pc' = "return"
    /\ UNCHANGED << element, include_logic, include_interface, calls, mermaid_code, result >>
    /\ UNCHANGED builderVars
    /\ UNCHANGED cleanVars

\* Lines 58-59.
Return ==
    /\ pc = "return"
    /\ result' = Some(Len(files_created) > 0)
    /\ pc' = "returned"
    /\ UNCHANGED << element, include_logic, include_interface, calls, mermaid_code,
                    files_created >>
    /\ UNCHANGED builderVars
    /\ UNCHANGED cleanVars

\* An exception raised while the ST builder runs: neither convert_to_mermaid
\* (lines 70-96 of st_processor.py) nor _parse_code_body nor
\* _convert_body_to_mermaid has a handler, so it arrives at line 61.
BuilderRaises ==
    /\ pc = "loop"
    /\ pc' = "except"
    /\ UNCHANGED builderVars
    /\ UNCHANGED cleanVars
    /\ UNCHANGED componentVars

\* Lines 61-63: the handler of convert_component.
ExceptReturn ==
    /\ pc = "except"
    /\ result' = Some(FALSE)
    /\ pc' = "returned"
    /\ UNCHANGED << element, include_logic, include_interface, calls, mermaid_code,
                    files_created >>
    /\ UNCHANGED builderVars
    /\ UNCHANGED cleanVars

\* Lines 31-42: the call of convert_component.
InitComponent ==
    /\ pc = "convert_component"
    /\ name \in Names
    /\ element \in [body : {None} \cup {Some(b) : b \in Bodies}, interface : BOOLEAN]
    /\ include_logic \in BOOLEAN
    /\ include_interface \in BOOLEAN
    /\ calls = << >>
    /\ mermaid_code = None
    /\ files_created = << >>
    /\ result = None
    /\ st_code = << >>
    /\ st_lines = << >>
    /\ i = 1
    /\ node_num = 1
    /\ last_action_node = StartId
    /\ in_case_statement = FALSE
    /\ case_start_node = NoneId
    /\ case_condition_node = NoneId
    /\ case_end_node = NoneId
    /\ case_branches = << >>
    /\ lines = << >>
    /\ mermaid_lines = << >>
    /\ cl_line = << >>
    /\ cl_original = << >>
    /\ cl_once = << >>
    /\ cl_twice = << >>

NextComponent ==
    \/ ConvertBody
    \/ ParseST
    \/ SkipBlank
    \/ ProcessLine
    \/ Finish
    \/ BuilderReturns
    \/ ParseLD
    \/ ParseCFC
    \/ ParseFBD
    \/ WriteLogic
    \/ ConvertInterface
    \/ Return
    \/ BuilderRaises
    \/ ExceptReturn

SpecComponent == InitComponent /\ [][NextComponent]_vars

----------------------------------------------------------------------------
(* Properties of the builder (checked under Spec).                         *)

\* The statements of doc that declare a node, that declare the node id, that
\* are edges, and the edges into and out of a node.
NodeIdx(doc) == {k \in 1..Len(doc) : doc[k].t = "node"}
DeclIdx(doc, id) == {k \in NodeIdx(doc) : doc[k].id = id}
KindIdx(doc, kind) == {k \in NodeIdx(doc) : doc[k].id.kind = kind}
EdgeIdx(doc) == {k \in 1..Len(doc) : doc[k].t = "edge"}
EdgesInto(doc, id) == {k \in EdgeIdx(doc) : doc[k].to = id}
EdgesFrom(doc, id) == {k \in EdgeIdx(doc) : doc[k].from = id}
EdgesBetween(doc, from, to) == {k \in EdgeIdx(doc) : doc[k].from = from /\ doc[k].to = to}

\* The loop is at a non-blank line.
AtLine == pc = "loop" /\ i <= Len(st_lines) /\ line # << >>

\* C1: the returned diagram is not empty and declares the Start node exactly
\* once and the End node exactly once, whatever was processed in between.
C1_StartEndOnce ==
    pc = "done" =>
        /\ Len(mermaid_lines) > 0
        /\ Cardinality(DeclIdx(mermaid_lines, StartId)) = 1
        /\ Cardinality(DeclIdx(mermaid_lines, EndId)) = 1

\* C1 witness: a diagram was returned for a text with a CASE and a conditional.
C1_Witness ==
    pc = "done" /\ KindIdx(lines, "Case") # {} /\ KindIdx(lines, "Condition") # {}

\* C2, in every state: no statement names an unset (None) node, and the
\* returned state has consumed every line.
C2_NoUnsetNode ==
    /\ \A k \in NodeIdx(lines) : lines[k].id # NoneId
    /\ \A k \in EdgeIdx(lines) : lines[k].from # NoneId /\ lines[k].to # NoneId
    /\ pc = "done" => i = Len(st_lines) + 1

\* C2, in every step: the loop consumes one line or the call returns, and a
\* line that matches no construct adds exactly the statements of a
\* PlainStatement.
C2_Step ==
    /\ pc = "loop"
    /\ (i' = i + 1 /\ pc' = "loop") \/ (i > Len(st_lines) /\ pc' = "done")
    /\ (AtLine /\ Classify(in_case_statement, line) = "PlainStatement") =>
           /\ lines' = lines \o PlainStatements(clean_line, last_action_node,
                                                Id("Action", node_num))
           /\ last_action_node' = Id("Action", node_num)

\* C2: translation is total: every line sequence is consumed to its end, a
\* closing or else line with no opener never uses an unset case node, and a
\* line that matches no construct is handled as a PlainStatement.
C2_Total == []C2_NoUnsetNode /\ [][C2_Step]_vars

\* C2 witness: the text END_CASE, ELSE, with no CASE and no IF open, was
\* translated to its end.
C2_Witness ==
    /\ pc = "done"
    /\ st_lines = << LnEndCase, LnElse >>
    /\ Cardinality(KindIdx(lines, "Action")) = 2

\* The CASE constructs of the emitted statements: the numbers of the Case
\* nodes; a CaseBranch or CaseAction node belongs to the construct opened
\* last before it.
Constructs == {lines[k].id.num : k \in KindIdx(lines, "Case")}
ConstructOf(n) == CHOOSE c \in Constructs : c < n /\ \A d \in Constructs : d < n => d <= c
BranchesOf(c) == {k \in KindIdx(lines, "CaseBranch") : ConstructOf(lines[k].id.num) = c}
TerminalsOf(c) == {lines[k].id : k \in {j \in KindIdx(lines, "CaseAction") :
                                           ConstructOf(lines[j].id.num) = c}}
Converges(c) ==
    /\ \A a \in TerminalsOf(c) :
           Cardinality(EdgesBetween(lines, a, Id("CaseEnd", c))) = 1
    /\ Cardinality(EdgesInto(lines, Id("CaseEnd", c))) = Cardinality(BranchesOf(c))

\* C3 as stated: for all inputs, every recorded CaseAction node is the source
\* of exactly one edge into the CaseEnd node of its construct, and the edges
\* into that CaseEnd node are as many as the branch lines of the construct.
C3_EveryConstructConverges ==
    pc = "done" => \A c \in Constructs : Converges(c)

\* C3 amended: the same, for every construct whose CaseEnd node was declared,
\* that is, every CASE that an END_CASE line closed while it was the open one.
C3_ClosedConstructConverges ==
    \A c \in Constructs : DeclIdx(lines, Id("CaseEnd", c)) # {} => Converges(c)

\* C3 witness: a closed construct with two branch lines, after an earlier one.
C3_Witness ==
    /\ pc = "done"
    /\ \E c \in Constructs :
           /\ c > 1
           /\ DeclIdx(lines, Id("CaseEnd", c)) # {}
           /\ Cardinality(BranchesOf(c)) = 2

\* The line sequence is a flat, well-formed CASE construct: a CASE .. OF line,
\* branch lines, an END_CASE line.
FlatCase(ls) ==
    /\ Len(ls) >= 2
    /\ Classify(FALSE, Strip(ls[1])) = "CaseOpen"
    /\ Classify(TRUE, Strip(ls[Len(ls)])) = "CaseClose"
    /\ \A k \in 2..(Len(ls) - 1) : Classify(TRUE, Strip(ls[k])) = "CaseBranch"

\* C4: a flat, well-formed CASE with k branch lines gives one CaseCondition
\* node, k CaseBranch/CaseAction pairs wired CaseCondition -> CaseBranch ->
\* CaseAction, and one CaseEnd node with k incoming edges; the frontier is then
\* the CaseEnd node and the builder is in Normal state.
C4_FlatCase ==
    (FlatCase(st_lines) /\ i > Len(st_lines)) =>
        LET k == Len(st_lines) - 2
            conds == KindIdx(lines, "CaseCond")
            ends == KindIdx(lines, "CaseEnd")
            branches == KindIdx(lines, "CaseBranch")
            actions == KindIdx(lines, "CaseAction")
        IN  /\ Cardinality(conds) = 1
            /\ Cardinality(branches) = k
            /\ Cardinality(actions) = k
            /\ \A b \in branches :
                   LET n == lines[b].id.num
                   IN  /\ Cardinality(DeclIdx(lines, Id("CaseAction", n))) = 1
                       /\ \A c \in conds :
                              Cardinality(EdgesBetween(lines, lines[c].id, lines[b].id)) = 1
                       /\ Cardinality(EdgesBetween(lines, lines[b].id, Id("CaseAction", n))) = 1
            /\ Cardinality(ends) = 1
            /\ \A e \in ends :
                   /\ Cardinality(EdgesInto(lines, lines[e].id)) = k
                   /\ last_action_node = lines[e].id
            /\ in_case_statement = FALSE

\* C4 witness: the CASE scenario with two branch lines was translated.
C4_Witness ==
    /\ pc = "done"
    /\ FlatCase(st_lines)
    /\ Len(st_lines) = 4
    /\ Cardinality(KindIdx(lines, "CaseAction")) = 2

\* The labels of the scenario of C5.
LblXGreater0 == << "x", " ", ">", " ", "0" >>
LblYGets1 == << "y", " ", Arrow, " ", "1" >>
LblElseYGets0 == LblElsePrefix \o << "y", " ", Arrow, " ", "0" >>

\* C5: for the IF/ELSE scenario the diagram has exactly one Condition node,
\* labelled 'x > 0'; its True edge leads to an action node labelled 'y <- 1';
\* an Else node labelled 'Else: y <- 0' follows; the last edge leads into End.
C5_IfElseScenario ==
    (pc = "done" /\ st_code = Text(IfElseScenario)) =>
        LET conds == KindIdx(mermaid_lines, "Condition")
        IN  /\ Cardinality(conds) = 1
            /\ \A c \in conds :
                   /\ mermaid_lines[c].label = LblXGreater0
                   /\ \E e \in EdgesFrom(mermaid_lines, mermaid_lines[c].id) :
                          /\ mermaid_lines[e].tag = "True"
                          /\ \E d \in DeclIdx(mermaid_lines, mermaid_lines[e].to) :
                                 mermaid_lines[d].label = LblYGets1
            /\ \E d \in KindIdx(mermaid_lines, "Action") :
                   mermaid_lines[d].label = LblElseYGets0
            /\ EdgesInto(mermaid_lines, EndId) # {}

\* The first line the loop processes, if there is one.
HasProcessed == \E k \in 1..Len(st_lines) : Strip(st_lines[k]) # << >>
FirstProcessed ==
    CHOOSE k \in 1..Len(st_lines) :
        Strip(st_lines[k]) # << >> /\ \A j \in 1..(k - 1) : Strip(st_lines[j]) = << >>
FirstClass == Classify(FALSE, Strip(st_lines[FirstProcessed]))

\* C6, in every state: when the first processed line is a PlainStatement no
\* edge leaves Start; when it is a CaseOpen or a ConditionalOpen, an edge leads
\* from Start to the Case or Condition node it allocated.
C6_StartEdge ==
    HasProcessed =>
        LET first == FirstClass
        IN  /\ first = "PlainStatement" =>
                   EdgesFrom(lines, StartId) = {} /\ EdgesFrom(mermaid_lines, StartId) = {}
            /\ (first = "CaseOpen" /\ i > FirstProcessed) =>
                   EdgesBetween(lines, StartId, Id("Case", 1)) # {}
            /\ (first = "ConditionalOpen" /\ i > FirstProcessed) =>
                   EdgesBetween(lines, StartId, Id("Condition", 1)) # {}

\* C6, in every step: a PlainStatement gets an edge from the frontier exactly
\* when the frontier is not Start.
C6_PlainStep ==
    (AtLine /\ Classify(in_case_statement, line) = "PlainStatement") =>
        (last_action_node # StartId
            <=> EdgesBetween(lines', last_action_node, Id("Action", node_num)) # {})

\* C6: the Start-edge asymmetry.
C6_StartAsymmetry == []C6_StartEdge /\ [][C6_PlainStep]_vars

\* C6 witness: the first processed line was a PlainStatement, a later
\* PlainStatement was chained to it.
C6_Witness ==
    /\ pc = "done"
    /\ HasProcessed
    /\ FirstClass = "PlainStatement"
    /\ EdgesBetween(lines, Id("Action", 1), Id("Action", 2)) # {}
    /\ Classify(FALSE, Strip(st_lines[2])) = "PlainStatement"

\* C7: the empty text, or a text of blank lines only, gives a diagram with
\* exactly the two nodes Start and End and no edge.
C7_EmptyTwoNodes ==
    (pc = "done" /\ Strip(st_code) = << >>) =>
        /\ Cardinality(NodeIdx(mermaid_lines)) = 2
        /\ Cardinality(DeclIdx(mermaid_lines, StartId)) = 1
        /\ Cardinality(DeclIdx(mermaid_lines, EndId)) = 1
        /\ EdgeIdx(mermaid_lines) = {}

\* C7 witness: a text of several blank lines was translated.
C7_Witness == pc = "done" /\ Strip(st_code) = << >> /\ Len(st_code) > 1

----------------------------------------------------------------------------
(* Properties of the sanitizer (checked under SpecClean).                  *)

\* The label after lines 278-298, and the label lines 301-317 make of it.
StepsLabel == CleanSteps(cl_line)
LongLabel == RebuildLong(StepsLabel, cl_original)
OverThreshold == Len(StepsLabel) > LongThreshold
IsCut == OverThreshold /\ Len(LongLabel) > DisplayBudget

\* C8: sanitizing twice gives the label of sanitizing once, for every raw line
\* whose sanitized label is under the threshold.
C8_Idempotent ==
    (pc = "twice" /\ Len(cl_once) < LongThreshold) => cl_twice = cl_once

\* C9 as stated: a label over the threshold comes back with at most 80
\* characters, and a cut label is the first 77 characters followed by '...'.
C9_CutIsFirst77 ==
    (pc # "raw" /\ OverThreshold) =>
        /\ Len(cl_once) <= DisplayBudget
        /\ IsCut => cl_once = SubSeq(LongLabel, 1, TruncateKeep) \o Ellipsis

\* C9 amended: a label over the threshold comes back with at most 80
\* characters, and a cut label is the first 77 characters followed by '...',
\* without the whitespace these 77 characters start with.
C9_CutIsFirst77Stripped ==
    (pc # "raw" /\ OverThreshold) =>
        /\ Len(cl_once) <= DisplayBudget
        /\ IsCut => cl_once = LStrip(SubSeq(LongLabel, 1, TruncateKeep), Whitespace) \o Ellipsis

\* C9 witness: a label over the threshold was cut, and the cut label starts
\* with whitespace that the sanitizer then removed.
C9_Witness ==
    /\ pc = "once"
    /\ IsCut
    /\ LongLabel[1] \in Whitespace
    /\ Len(cl_once) < DisplayBudget

\* C10: the sanitizer's result holds no raw double quote, on every path.
C10_NoRawQuote ==
    pc # "raw" => ~Contains(cl_once, << "\"" >>)

----------------------------------------------------------------------------
(* Further properties of the builder (checked under Spec).                 *)

\* C11: every node the builder declares (Action, Condition, CaseCond,
\* CaseBranch, CaseAction, Case, CaseEnd) carries a non-empty label, also a
\* CaseBranch whose line has nothing before its colon.
C11_LabelsNonEmpty ==
    \A k \in NodeIdx(lines) : lines[k].label # << >>

\* The statements emitted so far: the returned document once the call is
\* over, the builder's statements before.
Emitted == IF pc = "done" THEN mermaid_lines ELSE lines

\* The edges of doc that lead to the False target of a conditional.
FalseEdgeIdx(doc) == {k \in EdgeIdx(doc) : doc[k].tag = "False"}

\* C12, in every state: no node id is declared twice, and an id handed out
\* as the False target of a conditional is declared by no statement.
C12_IdsUnique ==
    /\ \A k \in NodeIdx(Emitted) : DeclIdx(Emitted, Emitted[k].id) = {k}
    /\ \A e \in FalseEdgeIdx(Emitted) : DeclIdx(Emitted, Emitted[e].to) = {}

\* C12, in every step: the node counter does not decrease, and it advances
\* on every line that declares a node.
C12_CounterStep ==
    /\ node_num' >= node_num
    /\ NodeIdx(lines') # NodeIdx(lines) => node_num' > node_num

\* C12: node ids are unique within one translation: no id is declared twice,
\* no False-target id is declared later as another node, the node counter
\* never decreases and every node-allocating line advances it.
C12_UniqueIds == []C12_IdsUnique /\ [][C12_CounterStep]_vars

\* C12 witness: a translation is over in which a conditional handed out a
\* False target and a later line declared a further node.
C12_Witness ==
    /\ pc = "done"
    /\ \E e \in FalseEdgeIdx(lines) : \E k \in NodeIdx(lines) : k > e + 1

\* The node ids doc declares or names in an edge.
NodesOf(doc) ==
    {doc[k].id : k \in NodeIdx(doc)}
        \cup {doc[k].from : k \in EdgeIdx(doc)} \cup {doc[k].to : k \in EdgeIdx(doc)}

\* C13: when at least one line was processed, End is the only sink of the
\* returned diagram: every node id declared or named by an edge, other than
\* End, has an outgoing edge, the False targets of conditionals and the
\* CaseAction nodes of a CASE that was never closed included.
C13_EndUniqueSink ==
    (pc = "done" /\ HasProcessed) =>
        \A id \in NodesOf(mermaid_lines) \ {EndId} : EdgesFrom(mermaid_lines, id) # {}

----------------------------------------------------------------------------
(* Properties of the component conversion (checked under SpecComponent).   *)

\* The logic files written so far.
LogicFiles == {k \in 1..Len(files_created) : files_created[k].file = "_logic.mmd"}
\* The calls of one method made so far, in order.
CallsOf(op) == SelectSeq(calls, LAMBDA c : c.op = op)

Selected ==
    IF \E k \in 1..4 : Truthy(element.body[1][Processors[k]])
    THEN CHOOSE k \in 1..4 : /\ Truthy(element.body[1][Processors[k]])
                             /\ \A j \in 1..(k - 1) : ~Truthy(element.body[1][Processors[j]])
    ELSE 0

\* The diagram the selected processor's converter returns.
SelectedDiagram ==
    IF Selected = 1 THEN mermaid_lines ELSE ForeignDiagram(Processors[Selected], name)

\* C15: the processors are asked in the order ST, LD, CFC, FBD and no further
\* than the first that returns non-empty text; only that processor's
\* converter is called, its diagram is the result and the content of the
\* logic file; when no processor returns text the result is None and no logic
\* file is written.
C15_ExtractorPriority ==
    element.body # None =>
        /\ \A k \in 1..Len(CallsOf("extract_code")) :
               /\ CallsOf("extract_code")[k].proc = Processors[k]
               /\ Selected = 0 \/ k <= Selected
        /\ \A k \in 1..Len(CallsOf("convert_to_mermaid")) :
               k = 1 /\ Selected # 0 /\ CallsOf("convert_to_mermaid")[k].proc = Processors[Selected]
        /\ (pc = "write" /\ Selected # 0) =>
               /\ Len(CallsOf("convert_to_mermaid")) = 1
               /\ mermaid_code = Some(SelectedDiagram)
        /\ \A k \in LogicFiles :
               Selected # 0 /\ files_created[k].content = SelectedDiagram /\ LogicFiles = {k}
        /\ Selected = 0 => mermaid_code = None /\ LogicFiles = {}

\* C15 witness: a component with no ST text whose LD and CFC extractors both
\* return text was converted, and its logic file holds the LD diagram.
C15_Witness ==
    /\ pc = "returned"
    /\ element.body # None
    /\ Selected = 2
    /\ Truthy(element.body[1]["CFC"])
    /\ LogicFiles # {}

----------------------------------------------------------------------------
(* Properties of the final edge and of conditionals (checked under Spec). *)

\* C16: at the end of the input the final frontier is wired to End: when the
\* frontier left by the last line is not Start, the returned diagram has
\* exactly one edge into End and its source is that frontier; End has no
\* outgoing edge.
C16_FrontierWiredToEnd ==
    pc = "done" =>
        /\ last_action_node # StartId =>
               \E k \in EdgeIdx(mermaid_lines) :
                   /\ EdgesInto(mermaid_lines, EndId) = {k}
                   /\ mermaid_lines[k].from = last_action_node
        /\ EdgesFrom(mermaid_lines, EndId) = {}

\* C16 witness: a translation is over whose last line closed a CASE block, so
\* that the frontier is the CaseEnd node.
C16_Witness ==
    /\ pc = "done"
    /\ last_action_node.kind = "CaseEnd"
    /\ EdgesInto(mermaid_lines, EndId) # {}

\* C17: a line that closes a conditional (END_IF or ENDIF), met outside a
\* CASE block, has no structural effect: no statement is emitted, the node
\* counter and the frontier stay as they are.
C17_EndIfStep ==
    (AtLine /\ ~in_case_statement /\ IsEndIf(Upper(line)) /\ ~IsCaseOpen(Upper(line))) =>
        /\ lines' = lines
        /\ node_num' = node_num
        /\ last_action_node' = last_action_node
C17_EndIfNoEffect == [][C17_EndIfStep]_vars

\* The edges of doc that lead to the True target of a conditional, and the
\* True target of the last conditional of doc.
TrueEdgeIdx(doc) == {k \in EdgeIdx(doc) : doc[k].tag = "True"}
LastTrueTarget(doc) ==
    doc[CHOOSE k \in TrueEdgeIdx(doc) : \A j \in TrueEdgeIdx(doc) : j <= k].to

\* C18: an ELSE line declares one action node labelled 'Else: <sanitized
\* line>' and emits exactly one edge into it, whose source is the True
\* target of the preceding conditional: a declared node, not the
\* conditional's False target; the new node becomes the frontier.  This
\* holds also when the ELSE follows the IF directly or is the first line.
C18_ElseStep ==
    (AtLine /\ Classify(in_case_statement, line) = "ConditionalElse") =>
        LET else_node == Id("Action", node_num)
        IN  /\ \E source \in NodesOf(lines') :
                   /\ lines' = lines \o << NodeDecl(else_node, LblElsePrefix \o clean_line, "rect"),
                                           Edge(source, else_node) >>
                   /\ TrueEdgeIdx(lines) # {}
                   /\ source = LastTrueTarget(lines)
                   /\ DeclIdx(lines, source) # {}
                   /\ \A e \in FalseEdgeIdx(lines) : lines[e].to # source
            /\ last_action_node' = else_node
C18_ElseFromTrueBranch == [][C18_ElseStep]_vars

\* C19: an ELSIF or ELSEIF line is handled as ConditionalElseIf and not as
\* ConditionalOpen: the edge into its new Condition node comes from the True
\* target of the preceding conditional, not from the current frontier, and
\* the True target of the new condition becomes the frontier.
C19_ElsifStep ==
    (AtLine /\ ~in_case_statement /\ IsElsif(Upper(line)) /\ ~IsCaseOpen(Upper(line))) =>
        LET condition_node == Id("Condition", node_num)
        IN  /\ Classify(in_case_statement, line) = "ConditionalElseIf"
            /\ \E k \in EdgeIdx(lines') : EdgesInto(lines', condition_node) = {k}
            /\ TrueEdgeIdx(lines) # {} =>
                   \A k \in EdgesInto(lines', condition_node) :
                       lines'[k].from = LastTrueTarget(lines)
            /\ last_action_node' = LastTrueTarget(lines')
C19_ElsifFromTrueBranch == [][C19_ElsifStep]_vars

\* C20, in every state: every Condition node has exactly two outgoing edges,
\* one tagged True and one tagged False, with different targets; the True
\* target is declared with the label 'Then branch' and the False target is
\* declared nowhere.
C20_TwoWay ==
    \A c \in KindIdx(lines, "Condition") :
        \E t, f \in EdgeIdx(lines) :
            /\ EdgesFrom(lines, lines[c].id) = {t, f}
            /\ lines[t].tag = "True" /\ lines[f].tag = "False"
            /\ lines[t].to # lines[f].to
            /\ \E d \in NodeIdx(lines) :
                   DeclIdx(lines, lines[t].to) = {d} /\ lines[d].label = LblThenBranch
            /\ DeclIdx(lines, lines[f].to) = {}

\* C20, in every step: a line handled as ConditionalOpen declares one
\* Condition node, emits one edge into it, from the frontier, and makes the
\* condition's True target the frontier.
C20_IfStep ==
    (AtLine /\ Classify(in_case_statement, line) = "ConditionalOpen") =>
        LET condition_node == Id("Condition", node_num)
        IN  /\ SubSeq(lines', 1, Len(lines)) = lines
            /\ KindIdx(lines', "Condition") \ KindIdx(lines, "Condition")
                   = DeclIdx(lines', condition_node)
            /\ Cardinality(DeclIdx(lines', condition_node)) = 1
            /\ \E k \in EdgeIdx(lines') :
                   /\ EdgesInto(lines', condition_node) = {k}
                   /\ lines'[k].from = last_action_node
            /\ \A t \in EdgesFrom(lines', condition_node) :
                   lines'[t].tag = "True" => last_action_node' = lines'[t].to

\* C20: a ConditionalOpen line allocates one Condition node attached by an
\* edge from the current frontier; every Condition node has exactly the two
\* outgoing edges True and False with different targets; the True target is
\* declared 'Then branch' and becomes the frontier, the False target is
\* referenced but never declared.
C20_ConditionalOpen == []C20_TwoWay /\ [][C20_IfStep]_vars

\* C20 witness: a translation is over in which a conditional was opened as
\* the first line, from Start, and another one later, from an Action node.
C20_Witness ==
    /\ pc = "done"
    /\ \E c \in KindIdx(lines, "Condition") : EdgesBetween(lines, StartId, lines[c].id) # {}
    /\ \E c \in KindIdx(lines, "Condition") :
           \E k \in EdgesInto(lines, lines[c].id) : lines[k].from.kind = "Action"

----------------------------------------------------------------------------
(* Properties of the CASE state and of the edges (checked under Spec).     *)

\* C21 as stated: while the builder is in a CASE block the frontier is the
\* CaseCond node of the open construct, whatever lines occurred inside the
\* construct.
C21_FrontierIsCaseCondition ==
    in_case_statement =>
        last_action_node = case_condition_node /\ case_condition_node.kind = "CaseCond"

\* The lines met so far, and the last of them that opened a CASE block.
Met == {k \in 1..(i - 1) : k <= Len(st_lines) /\ Strip(st_lines[k]) # << >>}
OpenLines == {k \in Met : IsCaseOpen(Upper(Strip(st_lines[k])))}
LastOpen == CHOOSE k \in OpenLines : \A j \in OpenLines : j <= k
\* Every line met since the block was opened is a branch line.
OnlyBranchesSinceOpen ==
    /\ OpenLines # {}
    /\ \A k \in Met : k > LastOpen => Classify(TRUE, Strip(st_lines[k])) = "CaseBranch"

\* C21, in every state: in a CASE block in which only branch lines occurred
\* since it was opened, the frontier is the CaseCond node of the construct.
C21_FrontierAfterBranches ==
    (in_case_statement /\ OnlyBranchesSinceOpen) =>
        last_action_node = case_condition_node /\ case_condition_node.kind = "CaseCond"

\* The text after the first colon of a branch line.
ActionFragment(ln) ==
    SubSeq(ln, 1 + (CHOOSE k \in 1..Len(ln) : ln[k] = ":" /\ \A j \in 1..(k - 1) : ln[j] # ":"),
           Len(ln))

\* C21, in every step: a branch line declares CaseBranch{n} and CaseAction{n},
\* adds exactly the edges CaseCond -> CaseBranch{n} -> CaseAction{n}, records
\* CaseAction{n} as a branch terminal, labels it 'No action' when the action
\* fragment is empty, and leaves the frontier unchanged.
C21_BranchStep ==
    (AtLine /\ Classify(in_case_statement, line) = "CaseBranch") =>
        LET branch_node == Id("CaseBranch", node_num)
            action_node == Id("CaseAction", node_num)
            new == {k \in 1..Len(lines') : k > Len(lines)}
        IN  /\ SubSeq(lines', 1, Len(lines)) = lines
            /\ {lines'[k].id : k \in new \cap NodeIdx(lines')} = {branch_node, action_node}
            /\ {<< lines'[k].from, lines'[k].to >> : k \in new \cap EdgeIdx(lines')}
                   = {<< case_condition_node, branch_node >>, << branch_node, action_node >>}
            /\ Cardinality(new) = 4
            /\ case_branches' = Append(case_branches, action_node)
            /\ Strip(ActionFragment(line)) = << >> =>
                   \A k \in DeclIdx(lines', action_node) : lines'[k].label = LblNoAction
            /\ \A k \in DeclIdx(lines', action_node) : lines'[k].label # << >>
            /\ last_action_node' = last_action_node

\* C21 (amended): a branch line adds the edges CaseCond -> CaseBranch ->
\* CaseAction, records the CaseAction as a branch terminal, substitutes 'No
\* action' for an empty action fragment and leaves the frontier unchanged, so
\* the frontier at the following END_CASE is still the CaseCond node when
\* only branch lines occurred inside the construct.
C21_BranchKeepsFrontier == []C21_FrontierAfterBranches /\ [][C21_BranchStep]_vars

\* C21 witness: the builder is at the END_CASE of a block with two branches,
\* one of them without action, and nothing but branches inside.
C21_Witness ==
    /\ AtLine
    /\ IsCaseClose(in_case_statement, Upper(line))
    /\ OnlyBranchesSinceOpen
    /\ Len(case_branches) = 2
    /\ \E k \in KindIdx(lines, "CaseAction") : lines[k].label = LblNoAction

\* The nodes of doc that only the CASE close and branch handlers declare.
CaseOnlyIdx(doc) ==
    KindIdx(doc, "CaseEnd") \cup KindIdx(doc, "CaseBranch") \cup KindIdx(doc, "CaseAction")

\* C22, in every state: before the first line is met the builder is in the
\* Normal state.
C22_StartsNormal == Met = {} => ~in_case_statement

\* C22, in every step: outside a CASE block a line that contains END_CASE or
\* a ':' declares no CaseEnd, CaseBranch or CaseAction node and, unless it
\* opens a CASE block, is handled by the conditional or plain rules; the
\* builder enters the CASE state only on a line that opens a CASE block and
\* leaves it only on an END_CASE line met in the CASE state.
C22_Step ==
    /\ (AtLine /\ ~in_case_statement
          /\ (Contains(Upper(line), KwEND_CASE) \/ Contains(line, << ":" >>))) =>
           /\ CaseOnlyIdx(lines') = CaseOnlyIdx(lines)
           /\ Classify(in_case_statement, line) \in
                  {"CaseOpen", "ConditionalOpen", "ConditionalElseIf", "ConditionalElse",
                   "ConditionalClose", "PlainStatement"}
           /\ in_case_statement' = IsCaseOpen(Upper(line))
    /\ (~in_case_statement /\ in_case_statement') => AtLine /\ IsCaseOpen(Upper(line))
    /\ (in_case_statement /\ ~in_case_statement') =>
           AtLine /\ Contains(Upper(line), KwEND_CASE) /\ ~IsCaseOpen(Upper(line))
    /\ CaseOnlyIdx(lines') # CaseOnlyIdx(lines) => in_case_statement

\* C22: the builder starts in the Normal state; END_CASE and branch lines are
\* recognized only in the CASE state, which is entered only through a line
\* that opens a CASE block and left only through an END_CASE line.
C22_CaseStateGuards == []C22_StartsNormal /\ [][C22_Step]_vars

\* C22 witness: a translation is over in which an END_CASE line was met
\* outside a CASE block, where it became a plain action, and a CASE block was
\* opened and closed.
C22_Witness ==
    /\ pc = "done"
    /\ KindIdx(lines, "CaseEnd") # {}
    /\ \E k \in KindIdx(lines, "Action") : lines[k].label = KwEND_CASE

\* The edges of doc as pairs, and whether a set of such pairs has no cycle:
\* pairs whose target has no outgoing pair are removed until none is left.
EdgePairs(doc) == {<< doc[k].from, doc[k].to >> : k \in EdgeIdx(doc)}
RECURSIVE NoCycle(_)
NoCycle(E) ==
    LET live == {e \in E : \E f \in E : f[1] = e[2]}
    IN  IF live = E THEN E = {} ELSE NoCycle(live)

\* C23, in every state: no sequence of edges leads from a node back to
\* itself, and no edge leads into Start.
C23_NoCycle ==
    /\ NoCycle(EdgePairs(Emitted))
    /\ EdgesInto(Emitted, StartId) = {}

\* C23, in every step: every edge a line adds leads to a node the line
\* allocates or to the CaseEnd node of the block it closes, and comes from
\* another id that is Start, has a number below the counter, or is allocated
\* by the same line; the final edge leads to End.
C23_EdgeStep ==
    /\ \A k \in EdgeIdx(lines') : k > Len(lines) =>
           LET e == lines'[k]
           IN  /\ \/ e.to.num \in node_num..(node_num' - 1) /\ e.to.kind # "CaseEnd"
                  \/ e.to = case_end_node /\ e.to.kind = "CaseEnd"
               /\ e.from # e.to
               /\ e.from = StartId \/ e.from.num < node_num \/ e.from.num <= e.to.num
    /\ pc' = "done" =>
           \A k \in EdgeIdx(mermaid_lines') : k > Len(mermaid_lines) + Len(lines) =>
               mermaid_lines'[k].to = EndId /\ mermaid_lines'[k].from # EndId

C24_SourcesDeclared ==
    \A e \in EdgeIdx(Emitted) :
        /\ Emitted[e].from = StartId \/ DeclIdx(Emitted, Emitted[e].from) # {}
        /\ DeclIdx(Emitted, Emitted[e].to) = {} =>
               Emitted[e].tag = "False" /\ Emitted[e].from.kind = "Condition"

====
